---------------------------- MODULE Spec2Model ----------------------------
(***************************************************************************)
(* Model of commandoro (src/commandoro/commandoro.py): the command         *)
(* executor, the package runner start(), the interactive selector          *)
(* get_pack_name() and the session controller cli().                       *)
(*                                                                         *)
(* A dict is modelled as a sequence of [key, val] records in insertion     *)
(* order (Python dicts keep insertion order), a command as a record        *)
(* [type, text] where type is the Python type of the JSON value.           *)
(***************************************************************************)
EXTENDS Integers, Sequences, FiniteSets, TLC

VARIABLES
    file,          \* the resolved configuration file: [state, data]
    name,          \* option --name ("" when not supplied: None and '' are both falsy)
    default,       \* option --default
    test,          \* option --test
    pc,            \* control point of cli()
    pack_dict,     \* cli: the loaded configuration
    pack_name,     \* cli: the chosen package name
    num,           \* get_pack_name: last package number entered
    user_input,    \* get_pack_name: last menu choice entered
    sel_pack_name, \* get_pack_name: its local pack_name
    pack_obj,      \* start: the package being run
    count,         \* start: loop counter
    pos,           \* start: number of commands the for loop has consumed
    errors,        \* start: list of error messages
    last_out,      \* the last message printed
    shown,         \* the commands printed by the last "Show commands"
    exec_log,      \* history: the calls of executor()
    os_log,        \* history: the commands handed to os.system()
    reports,       \* history: the summaries printed by start()
    sel_calls,     \* history: number of calls of get_pack_name()
    sel_result,    \* history: the values get_pack_name() returned
    banner,        \* history: end_logo() has printed the closing banner
    exc,           \* the exception that ended the process ("" when none)
    exit_code      \* the process exit status (-1 while running)

vars == <<file, name, default, test, pc, pack_dict, pack_name, num, user_input,
          sel_pack_name, pack_obj, count, pos, errors, last_out, shown,
          exec_log, os_log, reports, sel_calls, sel_result, banner, exc,
          exit_code>>

(***************************************************************************)
(* Bounds of the model.                                                    *)
(***************************************************************************)
MaxCmds == 2

PackNames == {"A", "default"}

\* the values of --name: not supplied, a key candidate, and a name no file holds
NameOptions == {""} \cup PackNames \cup {"X"}

\* a shell command string and a JSON value that is not a string
Commands == {[type |-> "str", text |-> "c"], [type |-> "int", text |-> "42"]}

\* the values os.system() can return: exit status 0, or exit code 1 (256)
Statuses == {0, 256}

RECURSIVE SeqsUpTo(_, _)
SeqsUpTo(S, n) ==
    IF n = 0 THEN {<<>>}
    ELSE LET shorter == SeqsUpTo(S, n - 1)
         IN  shorter \cup {Append(s, x) : s \in {t \in shorter : Len(t) = n - 1}, x \in S}

CommandLists == SeqsUpTo(Commands, MaxCmds)

\* the JSON objects a configuration file can hold: distinct keys, in file order
Configs ==
    {<<>>}
    \cup {<<[key |-> k, val |-> v]>> : k \in PackNames, v \in CommandLists}
    \cup {<<[key |-> k[1], val |-> v1], [key |-> k[2], val |-> v2]>> :
            k \in {p \in PackNames \X PackNames : p[1] # p[2]},
            v1 \in CommandLists, v2 \in CommandLists}

\* "missing": no such file; "invalid": text that is not JSON; "undecodable": a
\* body that is not text in the locale's encoding; "valid": a JSON object
Files ==
    {[state |-> "missing", data |-> <<>>], [state |-> "invalid", data |-> <<>>],
     [state |-> "undecodable", data |-> <<>>]}
    \cup {[state |-> "valid", data |-> d] : d \in Configs}

(***************************************************************************)
(* Dict helpers.                                                           *)
(***************************************************************************)
Keys(d) == {d[i].key : i \in 1..Len(d)}

Get(d, k) == d[CHOOSE i \in 1..Len(d) : d[i].key = k].val

(***************************************************************************)
(* class Pack                                                              *)
(***************************************************************************)
Pack(n, command_list) == [name |-> n, command_list |-> command_list]

pack_count(p) == Len(p.command_list)

NoPack == Pack("", <<>>)

(***************************************************************************)
(* executor(command, test): status is what os.system() returns if called.  *)
(***************************************************************************)
\* mutant: the type of the command is not consulted
os_system_called_AnyType(command, t) == ~t

\* mutant: the dry-run flag is not consulted
os_system_called_IgnoreTest(command, t) == command.type = "str"

os_system_called(command, t) == (~t) /\ command.type = "str"

\* mutant: the status os.system() returns is not inspected
executor_StatusIgnored(command, t, status) == TRUE

executor(command, t, status) ==
    IF os_system_called(command, t) /\ status # 0 THEN FALSE ELSE TRUE

(***************************************************************************)
(* open_file(file)                                                         *)
(***************************************************************************)
\* open() raises FileNotFoundError and json.load() JSONDecodeError, both caught;
\* f.read() inside json.load() raises UnicodeDecodeError, which is not
open_file_raises(f) == f.state = "undecodable"

open_file(f) == IF f.state = "valid" THEN f.data ELSE <<>>

(***************************************************************************)
(* get_pack_name: num_pack                                                 *)
(***************************************************************************)
\* mutant: the packages are numbered from the last key to the first
num_pack_Reversed(pack_objects) ==
    [n \in 1..Len(pack_objects) |-> pack_objects[Len(pack_objects) + 1 - n].key]

num_pack(pack_objects) == [n \in 1..Len(pack_objects) |-> pack_objects[n].key]

Init ==
    /\ file \in Files
    /\ name \in NameOptions
    /\ default \in BOOLEAN
    /\ test \in BOOLEAN
    /\ pc = "cli"
    /\ pack_dict = <<>>
    /\ pack_name = ""
    /\ num = 0
    /\ user_input = 0
    /\ sel_pack_name = ""
    /\ pack_obj = NoPack
    /\ count = 0
    /\ pos = 0
    /\ errors = <<>>
    /\ last_out = ""
    /\ shown = <<>>
    /\ exec_log = <<>>
    /\ os_log = <<>>
    /\ reports = <<>>
    /\ sel_calls = 0
    /\ sel_result = <<>>
    /\ banner = FALSE
    /\ exc = ""
    /\ exit_code = -1

(***************************************************************************)
(* The numbers a user can type at the two prompts (click.prompt with       *)
(* type=int only ever returns an integer).                                 *)
(***************************************************************************)
PackageInputs(d) == 0..(Len(d) + 1)

MenuInputs == 0..4

(***************************************************************************)
(* cli: the conditions of its branches.                                    *)
(***************************************************************************)
\* mutant: the emptiness test is missing
HasData_Always(d) == TRUE

HasData(d) == d # <<>>

\* mutant: the supplied name is ignored
UseName_Ignored(n, d) == FALSE

UseName(n, d) == n # "" /\ n \in Keys(d)

\* mutant: the chained pass is made without the --default flag
ChainCond_IgnoresFlag(dflt, d, pn) == "default" \in Keys(d) /\ pn # "default"

\* mutant: the chained pass is skipped after a package without commands
ChainCond_NeedsCommands(dflt, d, pn) ==
    dflt /\ "default" \in Keys(d) /\ pn # "default" /\ Get(d, pn) # <<>>

\* mutant: the chosen package is not compared with "default"
ChainCond_NoSelfTest(dflt, d, pn) == dflt /\ "default" \in Keys(d)

ChainCond(dflt, d, pn) == dflt /\ "default" \in Keys(d) /\ pn # "default"

(***************************************************************************)
(* start: the summary line it prints after the loop.                       *)
(***************************************************************************)
\* mutant: the errors are not subtracted from the completed commands
Summary_CountAsCompleted(p, cnt, errs) ==
    [name |-> p.name, completed |-> cnt, errors |-> Len(errs)]

Summary(p, cnt, errs) ==
    [name |-> p.name, completed |-> cnt - Len(errs), errors |-> Len(errs)]

\* the entry of a call start(pack_obj=p, test=test) made from control point `where`
StartCall(p, where) ==
    /\ pack_obj' = p
    /\ count' = 0
    /\ pos' = 0
    /\ errors' = <<>>
    /\ last_out' = "Pack name"
    /\ pc' = where

(***************************************************************************)
(* cli, from start_logo() to the first prompt, the first start() or the    *)
(* "No data available..." branch.                                          *)
(***************************************************************************)
cli ==
    /\ pc = "cli"
    /\ IF open_file_raises(file)
       THEN /\ exc' = "UnicodeDecodeError"
            /\ exit_code' = 1
            /\ pc' = "exit"
            /\ UNCHANGED <<pack_dict, pack_name, pack_obj, count, pos, errors,
                           last_out, sel_calls>>
       ELSE /\ pack_dict' = open_file(file)
            /\ UNCHANGED <<exc, exit_code>>
            /\ IF HasData(pack_dict')
               THEN IF UseName(name, pack_dict')
                    THEN /\ pack_name' = name
                         /\ StartCall(Pack(name, Get(pack_dict', name)),
                                      "start_primary")
                         /\ UNCHANGED sel_calls
                    ELSE /\ sel_calls' = sel_calls + 1
                         /\ pc' = "ChoosingPackage"
                         /\ UNCHANGED <<pack_name, pack_obj, count, pos, errors,
                                        last_out>>
               ELSE /\ last_out' = "No data available..."
                    /\ pc' = "end_logo"
                    /\ UNCHANGED <<pack_name, pack_obj, count, pos, errors,
                                   sel_calls>>
    /\ UNCHANGED <<file, name, default, test, num, user_input, sel_pack_name, shown,
                   exec_log, os_log, reports, sel_result, banner>>

(***************************************************************************)
(* get_pack_name, the outer loop: the answer n to the package prompt.      *)
(* num_pack[num] is evaluated before the test `num not in num_pack`, so    *)
(* a number that is no key raises KeyError, which nothing catches.         *)
(***************************************************************************)
ChoosingPackage(n) ==
    /\ pc = "ChoosingPackage"
    /\ num' = n
    /\ IF n \notin DOMAIN num_pack(pack_dict)
       THEN /\ exc' = "KeyError"
            /\ exit_code' = 1
            /\ pc' = "exit"
            /\ UNCHANGED <<sel_pack_name, last_out>>
       ELSE /\ sel_pack_name' = num_pack(pack_dict)[n]
            /\ IF n \notin DOMAIN num_pack(pack_dict)
               THEN /\ last_out' = "Input Error!"
                    /\ pc' = "ChoosingPackage"
               ELSE /\ pc' = "PackageMenu"
                    /\ UNCHANGED last_out
            /\ UNCHANGED <<exc, exit_code>>
    /\ UNCHANGED <<file, name, default, test, pack_dict, pack_name, user_input,
                   pack_obj, count, pos, errors, shown, exec_log, os_log, reports,
                   sel_calls, sel_result, banner>>

\* mutant: "Show commands" lacks its continue and falls to the break
PackageMenu_ShowBreaks(u) ==
    /\ pc = "PackageMenu"
    /\ IF u \notin {1, 2, 3}
       THEN /\ last_out' = "Input Error!"
            /\ user_input' = u
            /\ pc' = "ChoosingPackage"
            /\ UNCHANGED <<pack_name, num, sel_pack_name, pack_obj, count, pos,
                           errors, shown, sel_result>>
       ELSE IF u = 1
       THEN /\ pack_name' = sel_pack_name
            /\ sel_result' = Append(sel_result, sel_pack_name)
            /\ num' = 0
            /\ user_input' = 0
            /\ sel_pack_name' = ""
            /\ StartCall(Pack(pack_name', Get(pack_dict, pack_name')), "start_primary")
            /\ UNCHANGED shown
       ELSE IF u = 2
       THEN /\ shown' = Get(pack_dict, sel_pack_name)
            /\ last_out' = "commands:"
            /\ user_input' = u
            /\ pc' = "ChoosingPackage"
            /\ UNCHANGED <<pack_name, num, sel_pack_name, pack_obj, count, pos,
                           errors, sel_result>>
       ELSE /\ user_input' = u
            /\ pc' = "ChoosingPackage"
            /\ UNCHANGED <<pack_name, num, sel_pack_name, pack_obj, count, pos,
                           errors, last_out, shown, sel_result>>
    /\ UNCHANGED <<file, name, default, test, pack_dict, exec_log, os_log, reports,
                   sel_calls, banner, exc, exit_code>>

\* mutant: Cancel returns the selected name like Start
PackageMenu_CancelReturns(u) ==
    /\ pc = "PackageMenu"
    /\ IF u \notin {1, 2, 3}
       THEN /\ last_out' = "Input Error!"
            /\ user_input' = u
            /\ pc' = "ChoosingPackage"
            /\ UNCHANGED <<pack_name, num, sel_pack_name, pack_obj, count, pos,
                           errors, shown, sel_result>>
       ELSE IF u \in {1, 3}
       THEN /\ pack_name' = sel_pack_name
            /\ sel_result' = Append(sel_result, sel_pack_name)
            /\ num' = 0
            /\ user_input' = 0
            /\ sel_pack_name' = ""
            /\ StartCall(Pack(pack_name', Get(pack_dict, pack_name')), "start_primary")
            /\ UNCHANGED shown
       ELSE IF u = 2
       THEN /\ shown' = Get(pack_dict, sel_pack_name)
            /\ last_out' = "commands:"
            /\ user_input' = u
            /\ pc' = "PackageMenu"
            /\ UNCHANGED <<pack_name, num, sel_pack_name, pack_obj, count, pos,
                           errors, sel_result>>
       ELSE /\ user_input' = u
            /\ pc' = "ChoosingPackage"
            /\ UNCHANGED <<pack_name, num, sel_pack_name, pack_obj, count, pos,
                           errors, last_out, shown, sel_result>>
    /\ UNCHANGED <<file, name, default, test, pack_dict, exec_log, os_log, reports,
                   sel_calls, banner, exc, exit_code>>

(***************************************************************************)
(* get_pack_name, the inner loop: the answer u to the menu prompt.         *)
(* On 1 the function returns to cli, which calls start().                  *)
(***************************************************************************)
PackageMenu(u) ==
    /\ pc = "PackageMenu"
    /\ IF u \notin {1, 2, 3}
       THEN /\ last_out' = "Input Error!"
            /\ user_input' = u
            /\ pc' = "ChoosingPackage"
            /\ UNCHANGED <<pack_name, num, sel_pack_name, pack_obj, count, pos,
                           errors, shown, sel_result>>
       ELSE IF u = 1
       THEN /\ pack_name' = sel_pack_name
            /\ sel_result' = Append(sel_result, sel_pack_name)
            /\ num' = 0
            /\ user_input' = 0
            /\ sel_pack_name' = ""
            /\ StartCall(Pack(pack_name', Get(pack_dict, pack_name')), "start_primary")
            /\ UNCHANGED shown
       ELSE IF u = 2
       THEN /\ shown' = Get(pack_dict, sel_pack_name)
            /\ last_out' = "commands:"
            /\ user_input' = u
            /\ pc' = "PackageMenu"
            /\ UNCHANGED <<pack_name, num, sel_pack_name, pack_obj, count, pos,
                           errors, sel_result>>
       ELSE /\ user_input' = u
            /\ pc' = "ChoosingPackage"
            /\ UNCHANGED <<pack_name, num, sel_pack_name, pack_obj, count, pos,
                           errors, last_out, shown, sel_result>>
    /\ UNCHANGED <<file, name, default, test, pack_dict, exec_log, os_log, reports,
                   sel_calls, banner, exc, exit_code>>

(***************************************************************************)
(* ctrl+c at a prompt: click.prompt raises Abort and the process ends.     *)
(***************************************************************************)
Interrupt ==
    /\ pc \in {"ChoosingPackage", "PackageMenu"}
    /\ exc' = "Abort"
    /\ exit_code' = 1
    /\ pc' = "exit"
    /\ UNCHANGED <<file, name, default, test, pack_dict, pack_name, num, user_input,
                   sel_pack_name, pack_obj, count, pos, errors, last_out, shown,
                   exec_log, os_log, reports, sel_calls, sel_result, banner>>

(***************************************************************************)
(* start: the f-strings of lines 153 and 159, as the sequence of their     *)
(* literal and interpolated parts.                                         *)
(***************************************************************************)
\* mutant: the message is numbered before the counter is incremented
msg_ZeroBased(n, command) == <<"[execute ", n - 1, "]: ", command>>

msg(n, command) == <<"[execute ", n, "]: ", command>>

error_msg(m) == <<"Error: ">> \o m

\* mutant: the loop stops at the first failing command
StartStep_HaltOnError ==
    /\ pc \in {"start_primary", "start_default"}
    /\ pos < Len(pack_obj.command_list)
    /\ LET command == pack_obj.command_list[pos + 1]
       IN  \E status \in IF os_system_called(command, test) THEN Statuses ELSE {0} :
             LET ok == executor(command, test, status)
             IN  /\ pos' = IF ok THEN pos + 1 ELSE Len(pack_obj.command_list)
                 /\ count' = count + 1
                 /\ exec_log' = Append(exec_log, [pack |-> pack_obj.name, n |-> count',
                                                  command |-> command, ok |-> ok])
                 /\ os_log' = IF os_system_called(command, test)
                              THEN Append(os_log, [command |-> command,
                                                   status |-> status])
                              ELSE os_log
                 /\ errors' = IF ok THEN errors
                              ELSE Append(errors, error_msg(msg(count', command)))
                 /\ last_out' = IF ok THEN "[Successfully]" ELSE "[Error]"
    /\ UNCHANGED <<file, name, default, test, pc, pack_dict, pack_name, num,
                   user_input, sel_pack_name, pack_obj, shown, reports, sel_calls,
                   sel_result, banner, exc, exit_code>>

(***************************************************************************)
(* start: one iteration of the for loop.                                   *)
(***************************************************************************)
StartStep ==
    /\ pc \in {"start_primary", "start_default"}
    /\ pos < Len(pack_obj.command_list)
    /\ LET command == pack_obj.command_list[pos + 1]
       IN  \E status \in IF os_system_called(command, test) THEN Statuses ELSE {0} :
             LET ok == executor(command, test, status)
             IN  /\ pos' = pos + 1
                 /\ count' = count + 1
                 /\ exec_log' = Append(exec_log, [pack |-> pack_obj.name, n |-> count',
                                                  command |-> command, ok |-> ok])
                 /\ os_log' = IF os_system_called(command, test)
                              THEN Append(os_log, [command |-> command,
                                                   status |-> status])
                              ELSE os_log
                 /\ errors' = IF ok THEN errors
                              ELSE Append(errors, error_msg(msg(count', command)))
                 /\ last_out' = IF ok THEN "[Successfully]" ELSE "[Error]"
    /\ UNCHANGED <<file, name, default, test, pc, pack_dict, pack_name, num,
                   user_input, sel_pack_name, pack_obj, shown, reports, sel_calls,
                   sel_result, banner, exc, exit_code>>

\* mutant: the summary and the return sit inside the loop
StartEnd_EarlyReturn ==
    /\ pc \in {"start_primary", "start_default"}
    /\ reports' = Append(reports, Summary(pack_obj, count, errors))
    /\ IF pc = "start_primary" /\ ChainCond(default, pack_dict, pack_name)
       THEN StartCall(Pack("default", Get(pack_dict, "default")), "start_default")
       ELSE /\ pc' = "end_logo"
            /\ last_out' = "is executed."
            /\ UNCHANGED <<pack_obj, count, pos, errors>>
    /\ UNCHANGED <<file, name, default, test, pack_dict, pack_name, num, user_input,
                   sel_pack_name, shown, exec_log, os_log, sel_calls, sel_result,
                   banner, exc, exit_code>>

(***************************************************************************)
(* start: after the loop, the summary; then cli goes on: the chained       *)
(* "default" pass after the primary one, or end_logo().                    *)
(***************************************************************************)
StartEnd ==
    /\ pc \in {"start_primary", "start_default"}
    /\ pos = Len(pack_obj.command_list)
    /\ reports' = Append(reports, Summary(pack_obj, count, errors))
    /\ IF pc = "start_primary" /\ ChainCond(default, pack_dict, pack_name)
       THEN StartCall(Pack("default", Get(pack_dict, "default")), "start_default")
       ELSE /\ pc' = "end_logo"
            /\ last_out' = "is executed."
            /\ UNCHANGED <<pack_obj, count, pos, errors>>
    /\ UNCHANGED <<file, name, default, test, pack_dict, pack_name, num, user_input,
                   sel_pack_name, shown, exec_log, os_log, sel_calls, sel_result,
                   banner, exc, exit_code>>

(***************************************************************************)
(* end_logo() and the normal end of the process.                           *)
(***************************************************************************)
end_logo ==
    /\ pc = "end_logo"
    /\ banner' = TRUE
    /\ exit_code' = 0
    /\ pc' = "exit"
    /\ UNCHANGED <<file, name, default, test, pack_dict, pack_name, num, user_input,
                   sel_pack_name, pack_obj, count, pos, errors, last_out, shown,
                   exec_log, os_log, reports, sel_calls, sel_result, exc>>

Next ==
    \/ cli
    \/ \E n \in PackageInputs(pack_dict) : ChoosingPackage(n)
    \/ \E u \in MenuInputs : PackageMenu(u)
    \/ Interrupt
    \/ StartStep
    \/ StartEnd
    \/ end_logo

Spec == Init /\ [][Next]_vars

(***************************************************************************)
(* Helpers of the properties: the executor calls of the k-th Runner pass   *)
(* are the entries PassOffset(k)+1 .. PassOffset(k)+PassLen(k) of exec_log.*)
(***************************************************************************)
PassCommands(k) == Get(pack_dict, reports[k].name)

PassLen(k) == Len(PassCommands(k))

RECURSIVE PassOffset(_)
PassOffset(k) == IF k <= 1 THEN 0 ELSE PassOffset(k - 1) + PassLen(k - 1)

PassFailures(k) ==
    {i \in (PassOffset(k) + 1)..(PassOffset(k) + PassLen(k)) :
        i <= Len(exec_log) /\ ~exec_log[i].ok}

Running == pc \in {"start_primary", "start_default"}

\* C1: in ChoosingPackage a selection outside 1..N is reported and re-prompted:
\* the Selector stays in ChoosingPackage, nothing is raised, selected or run.
C1_OutOfRangeReprompts ==
    [][\A n \in PackageInputs(pack_dict) :
         (ChoosingPackage(n) /\ n \notin 1..Len(pack_dict))
            => /\ pc' = "ChoosingPackage"
               /\ exc' = ""
               /\ exit_code' = -1
               /\ last_out' = "Input Error!"
               /\ sel_result' = sel_result
               /\ exec_log' = exec_log]_vars

\* C2: in PackageMenu(selected) a choice other than 1, 2, 3 leads to
\* PackageMenu(selected) again, with the same selected package.
C2_InvalidChoiceRedisplaysMenu ==
    [][\A u \in MenuInputs :
         (PackageMenu(u) /\ u \notin {1, 2, 3})
            => /\ pc' = "PackageMenu"
               /\ sel_pack_name' = sel_pack_name]_vars

\* C3: every run that ends without an external interrupt has printed the
\* closing banner and exits with status zero.
C3_EndsWithBanner ==
    (pc = "exit" /\ exc # "Abort") => (banner /\ exit_code = 0)

\* C4: continue-on-error: a Runner pass calls the executor once per command, in
\* list order (the i-th call of the pass is for the i-th command), whatever
\* the outcomes of the earlier commands.
C4_ContinueOnError ==
    /\ Len(exec_log) = PassOffset(Len(reports) + 1) + (IF Running THEN pos ELSE 0)
    /\ \A k \in 1..Len(reports) : \A i \in 1..PassLen(k) :
          /\ exec_log[PassOffset(k) + i].pack = reports[k].name
          /\ exec_log[PassOffset(k) + i].n = i
          /\ exec_log[PassOffset(k) + i].command = PassCommands(k)[i]
    /\ Running =>
          /\ pos <= Len(pack_obj.command_list)
          /\ \A i \in 1..pos :
                /\ exec_log[PassOffset(Len(reports) + 1) + i].pack = pack_obj.name
                /\ exec_log[PassOffset(Len(reports) + 1) + i].n = i
                /\ exec_log[PassOffset(Len(reports) + 1) + i].command
                      = pack_obj.command_list[i]

C4_Witness ==
    /\ pc = "exit"
    /\ exc = ""
    /\ \E i \in DOMAIN exec_log : \E j \in DOMAIN exec_log :
          /\ exec_log[i].pack = exec_log[j].pack
          /\ ~exec_log[i].ok
          /\ exec_log[j].n = exec_log[i].n + 1

\* C5: the summary of a pass reports as errors the number of failed executor
\* calls of the pass and as completed the attempted commands minus the errors;
\* the two numbers sum to the package's count.
C5_SummaryCounts ==
    \A k \in 1..Len(reports) :
       /\ reports[k].errors = Cardinality(PassFailures(k))
       /\ reports[k].completed = PassLen(k) - Cardinality(PassFailures(k))
       /\ reports[k].completed + reports[k].errors = PassLen(k)

C5_Witness ==
    \E k \in 1..Len(reports) : reports[k].errors >= 1 /\ reports[k].completed >= 1

\* C6: in dry-run mode os.system is never called, every executor call returns
\* success, and every pass reports errors = 0 and completed = count.
C6_DryRun ==
    test =>
       /\ os_log = <<>>
       /\ \A i \in DOMAIN exec_log : exec_log[i].ok
       /\ \A k \in 1..Len(reports) :
             reports[k].errors = 0 /\ reports[k].completed = PassLen(k)

C6_Witness ==
    /\ test
    /\ pc = "exit"
    /\ Len(reports) = 2
    /\ PassLen(1) >= 1
    /\ PassLen(2) >= 1
    /\ \A i \in DOMAIN exec_log : exec_log[i].command.type = "str"

\* C7: chaining order: with the chain flag, "default" in the configuration and
\* a chosen package P other than "default", the "default" pass starts only
\* after all of P's commands were executed and P's summary printed; the calls
\* of the two passes are not interleaved.
C7_ChainingOrder ==
    (default /\ "default" \in Keys(pack_dict) /\ pack_name \notin {"", "default"}) =>
       /\ pc = "start_primary" =>
             /\ reports = <<>>
             /\ \A i \in DOMAIN exec_log : exec_log[i].pack = pack_name
       /\ (pc = "start_default" \/ \E j \in DOMAIN exec_log : exec_log[j].pack = "default") =>
             /\ Len(reports) >= 1
             /\ reports[1].name = pack_name
             /\ Len(exec_log) >= Len(Get(pack_dict, pack_name))
             /\ \A i \in DOMAIN exec_log :
                   IF i <= Len(Get(pack_dict, pack_name))
                   THEN /\ exec_log[i].pack = pack_name
                        /\ exec_log[i].command = Get(pack_dict, pack_name)[i]
                   ELSE exec_log[i].pack = "default"

C7_Witness ==
    /\ pc = "exit"
    /\ sel_calls = 1
    /\ Len(reports) = 2
    /\ reports[1].name = "A"
    /\ reports[2].name = "default"
    /\ PassLen(1) >= 2
    /\ PassLen(2) >= 1

\* C8: once a package is chosen there are exactly two Runner passes if the
\* chain flag is set, "default" is a key and the chosen name is not "default",
\* and exactly one pass otherwise.
C8_PassCount ==
    LET two == /\ default
               /\ \E i \in 1..Len(pack_dict) : pack_dict[i].key = "default"
               /\ pack_name # "default"
        passes == IF two THEN 2 ELSE 1
    IN  (pack_dict # <<>> /\ pack_name # "") =>
           /\ Len(reports) + (IF Running THEN 1 ELSE 0) <= passes
           /\ pc \in {"end_logo", "exit"} => Len(reports) = passes
           /\ pc = "start_default" => two

C8_Witness ==
    /\ pc = "exit"
    /\ default
    /\ pack_name = "default"
    /\ Len(pack_dict) = 2
    /\ Len(reports) = 1

\* C9: with a non-empty configuration, a supplied name that is a key bypasses
\* the Selector and is the package of the primary pass; otherwise the Selector
\* is entered and the primary pass runs the name it returned.
C9_NonInteractive ==
    (pc # "cli" /\ pack_dict # <<>>) =>
       IF name # "" /\ \E i \in 1..Len(pack_dict) : pack_dict[i].key = name
       THEN /\ sel_calls = 0
            /\ sel_result = <<>>
            /\ pc \notin {"ChoosingPackage", "PackageMenu"}
            /\ pc = "start_primary" => pack_obj = Pack(name, Get(pack_dict, name))
            /\ Len(reports) >= 1 => reports[1].name = name
       ELSE /\ sel_calls = 1
            /\ pc = "start_primary" =>
                  /\ Len(sel_result) = 1
                  /\ pack_obj = Pack(sel_result[1], Get(pack_dict, sel_result[1]))
            /\ Len(reports) >= 1 =>
                  /\ Len(sel_result) = 1
                  /\ reports[1].name = sel_result[1]

C9_Witness ==
    /\ pc = "exit"
    /\ Len(pack_dict) = 2
    /\ name = pack_dict[2].key
    /\ sel_calls = 0
    /\ Len(reports) >= 1
    /\ reports[1].name = name

\* C10: for the empty configuration the controller prints "No data available",
\* never enters the Selector, makes no Runner pass and no executor call, and
\* still prints the closing banner and ends without error.
C10_EmptyConfiguration ==
    (pc # "cli" /\ ~open_file_raises(file) /\ pack_dict = <<>>) =>
       /\ pc \in {"end_logo", "exit"}
       /\ last_out = "No data available..."
       /\ sel_calls = 0
       /\ reports = <<>>
       /\ exec_log = <<>>
       /\ os_log = <<>>
       /\ exc = ""
       /\ pc = "exit" => (banner /\ exit_code = 0)

C10_Witness ==
    /\ pc = "exit"
    /\ file.state = "valid"
    /\ pack_dict = <<>>
    /\ name # ""
    /\ default
    /\ ~test
    /\ banner

\* C11: whenever the Selector returns, the value is a key of the configuration
\* and is the name listed at the index most recently entered at the package
\* prompt, indices 1..N following the mapping's insertion order.
C11_SelectorReturn ==
    [][Len(sel_result') > Len(sel_result) =>
          LET r == sel_result'[Len(sel_result')]
          IN  /\ \E i \in 1..Len(pack_dict) : pack_dict[i].key = r
              /\ num \in 1..Len(pack_dict)
              /\ r = pack_dict[num].key]_vars

C11_Witness ==
    /\ Len(sel_result) = 1
    /\ Len(pack_dict) = 2
    /\ sel_result[1] = pack_dict[2].key
    /\ shown # <<>>
    /\ shown = pack_dict[1].val
    /\ shown # pack_dict[2].val

\* C12: in PackageMenu(selected) choice 2 lists the commands of the selected
\* package in stored order and leads to PackageMenu(selected) again, not to
\* ChoosingPackage and not out of the Selector.
C12_ShowCommands ==
    [][PackageMenu(2) =>
          /\ pc' = "PackageMenu"
          /\ sel_pack_name' = sel_pack_name
          /\ Len(shown') = Len(Get(pack_dict, sel_pack_name))
          /\ \A i \in 1..Len(shown') : shown'[i] = Get(pack_dict, sel_pack_name)[i]
          /\ sel_result' = sel_result
          /\ exc' = ""]_vars

C12_Witness ==
    /\ pc = "PackageMenu"
    /\ user_input = 2
    /\ Len(shown) >= 2
    /\ shown = Get(pack_dict, sel_pack_name)
    /\ shown[1] # shown[2]

\* C13: in PackageMenu(selected) choice 3 leads to ChoosingPackage without
\* returning a name or running anything, choice 1 is the only choice on which
\* the Selector returns, and it returns the selected name; from
\* ChoosingPackage every listed package can be selected (again).
C13_CancelAndStart ==
    [][/\ \A u \in MenuInputs : PackageMenu(u) =>
             /\ u = 3 => /\ pc' = "ChoosingPackage"
                         /\ sel_result' = sel_result
                         /\ pack_name' = pack_name
                         /\ exec_log' = exec_log
                         /\ reports' = reports
             /\ u = 1 => /\ sel_result' = Append(sel_result, sel_pack_name)
                         /\ pc' = "start_primary"
                         /\ pack_obj'.name = sel_pack_name
             /\ u # 1 => sel_result' = sel_result /\ pc' \in {"ChoosingPackage", "PackageMenu"}
       /\ \A n \in 1..Len(pack_dict) : ChoosingPackage(n) =>
             /\ pc' = "PackageMenu"
             /\ sel_pack_name' = pack_dict[n].key]_vars

C13_Witness ==
    /\ pc = "PackageMenu"
    /\ user_input = 3
    /\ Len(pack_dict) = 2
    /\ sel_pack_name = pack_dict[2].key
    /\ shown # <<>>
    /\ shown = pack_dict[1].val
    /\ shown # pack_dict[2].val
    /\ sel_result = <<>>
    /\ exec_log = <<>>

\* C14: after the last Runner pass of a run that went through the Selector,
\* the program is at the package prompt (ChoosingPackage) again.
C14_BackToMainMenu ==
    [][(sel_calls = 1 /\ Running /\ ~Running') => pc' = "ChoosingPackage"]_vars

\* C15: in live mode an executor call for a command string hands it to
\* os.system exactly once and returns failure iff the status is non-zero; the
\* Runner records an error exactly when the executor returned failure.
C15_LiveExecutor ==
    [][(StartStep /\ ~test /\ pack_obj.command_list[pos + 1].type = "str") =>
          LET command == pack_obj.command_list[pos + 1]
              res == exec_log'[Len(exec_log')]
          IN  /\ Len(exec_log') = Len(exec_log) + 1
              /\ res.command = command
              /\ Len(os_log') = Len(os_log) + 1
              /\ os_log'[Len(os_log')].command = command
              /\ res.ok <=> (os_log'[Len(os_log')].status = 0)
              /\ Len(errors') = Len(errors) + (IF res.ok THEN 0 ELSE 1)]_vars

C15_Witness ==
    /\ ~test
    /\ pc = "exit"
    /\ Len(reports) = 1
    /\ Len(os_log) = 2
    /\ os_log[1].status # 0
    /\ os_log[2].status = 0
    /\ reports[1].errors = 1
    /\ reports[1].completed = 1

\* C16: a pass over an empty package makes no iteration and no executor call
\* and reports 0 completed and 0 errors, in both modes; after an empty chosen
\* package the chained "default" pass still runs when the chaining conditions
\* hold.
C16_EmptyPackage ==
    /\ (Running /\ pack_obj.command_list = <<>>) =>
          (count = 0 /\ pos = 0 /\ errors = <<>>)
    /\ \A k \in 1..Len(reports) :
          PassLen(k) = 0 =>
             /\ reports[k].completed = 0
             /\ reports[k].errors = 0
             /\ \A i \in DOMAIN exec_log : exec_log[i].pack # reports[k].name
    /\ ( /\ pc \in {"end_logo", "exit"}
         /\ Len(reports) >= 1
         /\ PassLen(1) = 0
         /\ default
         /\ \E i \in 1..Len(pack_dict) : pack_dict[i].key = "default"
         /\ reports[1].name # "default" ) =>
          (Len(reports) = 2 /\ reports[2].name = "default")

C16_Witness ==
    /\ pc = "exit"
    /\ ~test
    /\ Len(reports) = 2
    /\ PassLen(1) = 0
    /\ reports[1].completed = 0
    /\ reports[1].errors = 0
    /\ PassLen(2) >= 1
    /\ Len(exec_log) = PassLen(2)

\* C17: the Loader never raises: for a missing file and for a body that is
\* not valid JSON the configuration is empty and the controller prints "No
\* data available"; for a valid file the configuration is the file's mapping.
C17_LoaderNeverRaises ==
    pc # "cli" =>
       /\ exc # "UnicodeDecodeError"
       /\ file.state = "valid" => pack_dict = file.data
       /\ file.state # "valid" =>
             (pack_dict = <<>> /\ last_out = "No data available...")

\* C18: no command is executed while the Selector is active; the executor is
\* called only after the Selector returned (or was bypassed by a valid
\* supplied name), and only for commands of the chosen package and, when
\* chained, of "default".
C18_NoExecutionInSelector ==
    /\ pc \in {"ChoosingPackage", "PackageMenu"} =>
          (exec_log = <<>> /\ os_log = <<>> /\ reports = <<>>)
    /\ exec_log # <<>> =>
          LET chosen == IF sel_calls = 0 THEN name
                        ELSE IF sel_result # <<>> THEN sel_result[1] ELSE ""
          IN  /\ chosen # ""
              /\ \E i \in 1..Len(pack_dict) : pack_dict[i].key = chosen
              /\ \A i \in DOMAIN exec_log :
                    /\ \/ exec_log[i].pack = chosen
                       \/ default /\ exec_log[i].pack = "default"
                    /\ \E j \in 1..Len(Get(pack_dict, exec_log[i].pack)) :
                          exec_log[i].command = Get(pack_dict, exec_log[i].pack)[j]
    /\ \A i \in DOMAIN os_log :
          \E j \in DOMAIN exec_log : exec_log[j].command = os_log[i].command

C18_Witness ==
    /\ pc = "exit"
    /\ sel_calls = 1
    /\ shown # <<>>
    /\ default
    /\ Len(reports) = 2
    /\ PassLen(1) >= 1
    /\ PassLen(2) >= 1
    /\ os_log # <<>>

\* C19: during a Runner pass 0 <= len(errors) <= count <= Package count; each
\* iteration adds one to count and at most one entry to errors; the entry of a
\* failure at position N is "Error: [execute N]: <command>", so the entries
\* are ordered by position.
C19_RunnerCounters ==
    [][/\ Running' =>
             /\ 0 <= Len(errors')
             /\ Len(errors') <= count'
             /\ count' <= Len(pack_obj'.command_list)
             /\ \A i \in 1..Len(errors') :
                   /\ Len(errors'[i]) = 5
                   /\ errors'[i][1] = "Error: "
                   /\ errors'[i][2] = "[execute "
                   /\ errors'[i][3] \in 1..count'
                   /\ errors'[i][4] = "]: "
                   /\ errors'[i][5] = pack_obj'.command_list[errors'[i][3]]
                   /\ i > 1 => errors'[i - 1][3] < errors'[i][3]
       /\ StartStep =>
             /\ count' = count + 1
             /\ Len(errors') \in {Len(errors), Len(errors) + 1}
             /\ SubSeq(errors', 1, Len(errors)) = errors
             /\ Len(errors') = Len(errors) + 1 =>
                   /\ errors'[Len(errors')][3] = count'
                   /\ ~exec_log'[Len(exec_log')].ok]_vars

C19_Witness ==
    /\ Running
    /\ count = 2
    /\ Len(errors) = 1
    /\ errors[1][3] = 2
    /\ exec_log[Len(exec_log) - 1].ok

\* C20: in live mode a command that is not a string is never handed to
\* os.system and the executor reports success for it, so the Runner counts it
\* as completed and not as an error.
C20_NonStringCommand ==
    ~test =>
       /\ \A i \in DOMAIN os_log : os_log[i].command.type = "str"
       /\ Len(os_log) =
             Cardinality({i \in DOMAIN exec_log : exec_log[i].command.type = "str"})
       /\ \A i \in DOMAIN exec_log : exec_log[i].command.type # "str" => exec_log[i].ok
       /\ \A k \in 1..Len(reports) :
             (\A i \in 1..PassLen(k) : PassCommands(k)[i].type # "str") =>
                (reports[k].errors = 0 /\ reports[k].completed = PassLen(k))

C20_Witness ==
    /\ ~test
    /\ pc = "exit"
    /\ Len(reports) = 1
    /\ PassLen(1) >= 2
    /\ \A i \in 1..PassLen(1) : PassCommands(1)[i].type = "int"
    /\ reports[1].completed = PassLen(1)
    /\ reports[1].errors = 0
    /\ os_log = <<>>

=============================================================================
